---- MODULE Spec2Model ----
(***************************************************************************)
(* clzw: LZW encoder (src/src/lzw-enc.c and the root-node variant          *)
(* src/unnamed/part_002) and LZW decoder (src/src/lzw.c, the lzw_dec_*     *)
(* functions that include src/src/lzw.h), modelled as one state machine:   *)
(* the application feeds buffers to lzw_encode_buf, calls lzw_encode_end,  *)
(* and hands the bytes that reached lzw_writebuf to lzw_decode_buf.        *)
(*                                                                         *)
(* Scaling.  The source fixes a byte at 8 bits, the alphabet at 256 codes  *)
(* and DICT_SIZE at 1 << 20.  Every occurrence of 8 / 256 / 20 in the code *)
(* is read here from cfg (cb, 2^cb, mw), so that the same definitions run  *)
(* with the real constants (SpecReal) and with a small byte and a small    *)
(* dictionary (Spec), where a dictionary fill is reachable.                *)
(*                                                                         *)
(* Context memory.  lzw_enc_init and lzw_dec_init do not touch bb, lzwn,   *)
(* c or the dictionary nodes above 255; the tools keep the context in a    *)
(* global object, so the model starts from a zero-filled context.          *)
(*                                                                         *)
(* Bit buffer.  bb.buf is kept reduced to its bb.n pending bits: the bits  *)
(* above them were already extracted and are never read again (every read  *)
(* shifts by bb.n and masks), so 32-bit overflow of the shift loses        *)
(* nothing the program observes.                                           *)
(*                                                                         *)
(* Out-of-bounds node.  lzw.h sets NODE_NULL to DICT_SIZE while dict has   *)
(* DICT_SIZE elements, so dict[NODE_NULL] lies past the array.  ub is the  *)
(* outcome the build produces: "alias", the node overlays the fields that  *)
(* follow dict in the context (code, max, codesize, low byte of bb.buf);   *)
(* "own", the access behaves as a separate node.                           *)
(***************************************************************************)
EXTENDS Integers, Sequences, FiniteSets, TLC

VARIABLES cfg, ub, pc, inp, enc, wire, fed, dec

vars == <<cfg, ub, pc, inp, enc, wire, fed, dec>>

(***************************************************************************)
(* Bounds of the model and constants of the program.                       *)
(***************************************************************************)
ScaledCharBit == 2
ScaledMaxWidth == 3
ScaledBuffSize == 4
MaxLen == 13
MaxBuf == 2
MaxWire == 4
RealCharBit == 8
RealMaxWidth == 20
RealBuffSize == 256
MaxLenReal == 5
MaxLenFill == 7
MaxWireFill == 7
MaxChunk == 2
MaxCodes == 3
MaxLenAB == 10
ZerosMaxWidth == 11
ZerosBuf == 2
ZerosCalls == 8
PendCharBit == 1
MaxWirePend == 8
MaxLenReinit == 5
MaxStreams == 2
MaxWireLoop == 11

LZW_ERR_DICT_IS_FULL == -1
LZW_ERR_INPUT_BUF == -2
LZW_ERR_WRONG_CODE == -3

CHAR_BIT == cfg.cb
ALPHA == 2 ^ cfg.cb
DICT_SIZE == 2 ^ cfg.mw
NODE_NULL == DICT_SIZE
BUFF_SIZE == cfg.bufsz

ZeroNodeEnc == [prev |-> 0, first |-> 0, next |-> 0, ch |-> 0]
ZeroNodeDec == [prev |-> 0, ch |-> 0]

(***************************************************************************)
(* The dictionary array: the nodes written so far; a node never written    *)
(* reads as zero-filled memory.                                            *)
(***************************************************************************)
DictRead(d, i, zero) == IF i \in DOMAIN d THEN d[i] ELSE zero

DictWrite(d, i, node) ==
    [j \in (DOMAIN d) \cup {i} |-> IF j = i THEN node ELSE d[j]]

(***************************************************************************)
(* ctx->dict[i] of the encoder, read and written field by field.  Index    *)
(* NODE_NULL is the element past the array.                                *)
(***************************************************************************)
enc_node(ctx, i) ==
    IF i = NODE_NULL /\ ub = "alias"
    THEN [prev |-> ctx.code, first |-> ctx.max, next |-> ctx.codesize,
          ch |-> ctx.bb.buf % ALPHA]
    ELSE DictRead(ctx.dict, i, ZeroNodeEnc)

enc_set(ctx, i, fld, v) ==
    IF i = NODE_NULL /\ ub = "alias"
    THEN CASE fld = "prev"  -> [ctx EXCEPT !.code = v]
           [] fld = "first" -> [ctx EXCEPT !.max = v]
           [] fld = "next"  -> [ctx EXCEPT !.codesize = v]
           [] fld = "ch"    ->
                [ctx EXCEPT !.bb.buf =
                    (((@ \div ALPHA) * ALPHA) + v) % (2 ^ ctx.bb.n)]
    ELSE [ctx EXCEPT !.dict =
            DictWrite(@, i, [DictRead(@, i, ZeroNodeEnc) EXCEPT ![fld] = v])]

(***************************************************************************)
(* lzw_writebuf: the application's stream receives the bytes.  wcalls is   *)
(* history: the size passed in each call.                                  *)
(***************************************************************************)
lzw_writebuf(ctx, bytes) ==
    [ctx EXCEPT !.stream = @ \o bytes, !.wcalls = Append(@, Len(bytes))]

(***************************************************************************)
(* lzw_enc_writebits: shift the new bits in, move whole bytes to buff,     *)
(* hand buff to lzw_writebuf when it is full.  lzwn is Len(buff).  xlog is *)
(* history: the bytes taken out of the bit buffer, in order.               *)
(***************************************************************************)
RECURSIVE enc_flush_bytes(_, _)
enc_flush_bytes(ctx, nbits) ==
    IF nbits >= CHAR_BIT
    THEN LET n1 == nbits - CHAR_BIT
             b  == (ctx.bb.buf \div (2 ^ n1)) % ALPHA
             c1 == [ctx EXCEPT !.buff = Append(@, b), !.xlog = Append(@, b)]
             c2 == IF Len(c1.buff) = BUFF_SIZE
                   THEN lzw_writebuf([c1 EXCEPT !.buff = <<>>], c1.buff)
                   ELSE c1
         IN  enc_flush_bytes(c2, n1)
    ELSE [ctx EXCEPT !.bb = [buf |-> ctx.bb.buf % (2 ^ nbits), n |-> nbits]]

lzw_enc_writebits(ctx, bits, nbits) ==
    LET buf1 == (ctx.bb.buf * (2 ^ nbits)) + (bits % (2 ^ nbits))
    IN  enc_flush_bytes([ctx EXCEPT !.bb.buf = buf1], nbits + ctx.bb.n)

(***************************************************************************)
(* lzw_enc_flushbits of lzw-enc.c: the test and the pad use n & 3.         *)
(***************************************************************************)
lzw_enc_flushbits(ctx) ==
    IF (ctx.bb.n % 4) # 0
    THEN lzw_enc_writebits(ctx, 0, CHAR_BIT - (ctx.bb.n % 4))
    ELSE ctx

(***************************************************************************)
(* The zero-filled context, and lzw_enc_init of both encoders.  impl is    *)
(* the source file the encoder was built from: "enc" is src/src/lzw-enc.c, *)
(* "root" is src/unnamed/part_002.  wlog and resets are history: one entry *)
(* per code written, and the number of lzw_enc_reset calls; gen is the     *)
(* number of streams the context was used for before this one.             *)
(***************************************************************************)
ZeroEnc(impl) ==
    [impl |-> impl, dict |-> <<>>, code |-> 0, max |-> 0, codesize |-> 0,
     bb |-> [buf |-> 0, n |-> 0], buff |-> <<>>, stream |-> <<>>,
     hung |-> FALSE, wlog |-> <<>>, resets |-> 0, xlog |-> <<>>,
     wcalls |-> <<>>, gen |-> 0]

RootsEnc(prev, chained) ==
    [i \in 0 .. (ALPHA - 1) |->
        [prev |-> prev, first |-> NODE_NULL,
         next |-> IF chained /\ i < ALPHA - 1 THEN i + 1 ELSE NODE_NULL,
         ch |-> i]]

lzw_enc_init_enc(ctx) ==
    LET c0 == [ctx EXCEPT !.dict = RootsEnc(NODE_NULL, FALSE)]
        c1 == enc_set(c0, NODE_NULL, "prev", NODE_NULL)
        c2 == enc_set(c1, NODE_NULL, "first", NODE_NULL)
        c3 == enc_set(c2, NODE_NULL, "next", NODE_NULL)
    IN  [c3 EXCEPT !.code = NODE_NULL, !.max = ALPHA - 1,
                   !.codesize = CHAR_BIT]

lzw_enc_init_root(ctx) ==
    LET c0 == [ctx EXCEPT !.dict = RootsEnc(NODE_NULL - 1, TRUE)]
        c1 == enc_set(c0, NODE_NULL - 1, "prev", NODE_NULL)
        c2 == enc_set(c1, NODE_NULL - 1, "first", 0)
        c3 == enc_set(c2, NODE_NULL - 1, "next", NODE_NULL)
    IN  [c3 EXCEPT !.code = NODE_NULL - 1, !.max = ALPHA - 1,
                   !.codesize = CHAR_BIT]

lzw_enc_init(ctx) ==
    IF ctx.impl = "enc" THEN lzw_enc_init_enc(ctx) ELSE lzw_enc_init_root(ctx)

(***************************************************************************)
(* lzw_enc_reset: empty the child lists of the single-byte codes.          *)
(***************************************************************************)
(* Variant: the reset leaves the child lists of the single-byte codes. *)
lzw_enc_reset_keep(ctx) ==
    [ctx EXCEPT !.max = ALPHA - 1, !.codesize = CHAR_BIT, !.resets = @ + 1]

(* Variant: the reset returns to CHAR_BIT + 1 bits. *)
lzw_enc_reset_wide(ctx) ==
    [ctx EXCEPT
        !.dict = [j \in (DOMAIN @) \cup (0 .. (ALPHA - 1)) |->
                    IF j < ALPHA
                    THEN [DictRead(@, j, ZeroNodeEnc) EXCEPT !.first = NODE_NULL]
                    ELSE @[j]],
        !.max = ALPHA - 1,
        !.codesize = CHAR_BIT + 1,
        !.resets = @ + 1]

lzw_enc_reset(ctx) ==
    [ctx EXCEPT
        !.dict = [j \in (DOMAIN @) \cup (0 .. (ALPHA - 1)) |->
                    IF j < ALPHA
                    THEN [DictRead(@, j, ZeroNodeEnc) EXCEPT !.first = NODE_NULL]
                    ELSE @[j]],
        !.max = ALPHA - 1,
        !.codesize = CHAR_BIT,
        !.resets = @ + 1]

(***************************************************************************)
(* lzw_enc_findstr: walk the child list of code.  HUNG is the result of a  *)
(* walk that never reaches NODE_NULL (the C loop would not return).        *)
(***************************************************************************)
HUNG == -1

RECURSIVE enc_find_from(_, _, _, _, _)
enc_find_from(ctx, code, c, nc, fuel) ==
    IF nc = NODE_NULL THEN NODE_NULL
    ELSE IF fuel = 0 THEN HUNG
    ELSE IF code = enc_node(ctx, nc).prev /\ c = enc_node(ctx, nc).ch THEN nc
    ELSE enc_find_from(ctx, code, c, enc_node(ctx, nc).next, fuel - 1)

(* Variant: only the first child of the list is examined. *)
lzw_enc_findstr_head(ctx, code, c) ==
    LET nc == enc_node(ctx, code).first
    IN  IF /\ nc # NODE_NULL
           /\ code = enc_node(ctx, nc).prev
           /\ c = enc_node(ctx, nc).ch
        THEN nc ELSE NODE_NULL

(* Variant: the search never finds the string. *)
lzw_enc_findstr_miss(ctx, code, c) == NODE_NULL

lzw_enc_findstr(ctx, code, c) ==
    enc_find_from(ctx, code, c, enc_node(ctx, code).first, DICT_SIZE + 1)

(***************************************************************************)
(* lzw_enc_addstr: <<context, returned code>>.                             *)
(***************************************************************************)
(* Variant: the new string is appended behind the first child. *)
lzw_enc_addstr_second(ctx, code, c) ==
    IF ctx.max = NODE_NULL \/ code = NODE_NULL
    THEN <<ctx, NODE_NULL>>
    ELSE LET c1 == [ctx EXCEPT !.max = @ + 1]
             h  == enc_node(c1, code).first
             c2 == enc_set(c1, c1.max, "prev", code)
             c3 == enc_set(c2, c2.max, "first", NODE_NULL)
             c4 == IF h = NODE_NULL
                   THEN enc_set(enc_set(c3, c3.max, "next", NODE_NULL),
                                code, "first", c3.max)
                   ELSE enc_set(enc_set(c3, c3.max, "next",
                                        enc_node(c3, h).next),
                                h, "next", c3.max)
             c5 == enc_set(c4, c4.max, "ch", c)
         IN  <<c5, c5.max>>

lzw_enc_addstr(ctx, code, c) ==
    IF ctx.max = NODE_NULL \/ code = NODE_NULL
    THEN <<ctx, NODE_NULL>>
    ELSE LET c1 == [ctx EXCEPT !.max = @ + 1]
             c2 == enc_set(c1, c1.max, "prev", code)
             c3 == enc_set(c2, c2.max, "first", NODE_NULL)
             c4 == enc_set(c3, c3.max, "next", enc_node(c3, code).first)
             c5 == enc_set(c4, code, "first", c4.max)
             c6 == enc_set(c5, c5.max, "ch", c)
         IN  <<c6, c6.max>>

(***************************************************************************)
(* History: one entry per code handed to lzw_enc_writebits; maxAt is max   *)
(* at the moment of the call.                                              *)
(***************************************************************************)
enc_log(ctx, code, width) ==
    [ctx EXCEPT !.wlog = Append(@,
        [code |-> code, bits |-> code % (2 ^ width), width |-> width,
         maxAt |-> ctx.max, reset |-> FALSE, maxAfter |-> ctx.max,
         csAfter |-> ctx.codesize, rootsEmpty |-> FALSE])]

RootsEmpty(ctx) ==
    \A i \in 0 .. (ALPHA - 1) : enc_node(ctx, i).first = NODE_NULL

enc_log_done(ctx, didReset) ==
    [ctx EXCEPT !.wlog[Len(ctx.wlog)] =
        [@ EXCEPT !.reset = didReset, !.maxAfter = ctx.max,
                  !.csAfter = ctx.codesize, !.rootsEmpty = RootsEmpty(ctx)]]

(***************************************************************************)
(* lzw_enc_write of lzw-enc.c: widen before the code is written.           *)
(***************************************************************************)
(* Variant: the same test, made after the code is written. *)
lzw_enc_write_after(ctx, code) ==
    LET c1 == lzw_enc_writebits(enc_log(ctx, code, ctx.codesize),
                                code, ctx.codesize)
    IN  IF c1.max = 2 ^ c1.codesize
        THEN [c1 EXCEPT !.codesize = @ + 1] ELSE c1

lzw_enc_write(ctx, code) ==
    LET c1 == IF ctx.max = 2 ^ ctx.codesize
              THEN [ctx EXCEPT !.codesize = @ + 1] ELSE ctx
    IN  lzw_enc_writebits(enc_log(c1, code, c1.codesize), code, c1.codesize)

(***************************************************************************)
(* One iteration of the loop of lzw_encode_buf, for each encoder.          *)
(***************************************************************************)
(* Variant: the string that missed is not entered into the dictionary. *)
enc_miss_tail_forget(ctx, c) ==
    [enc_log_done(ctx, FALSE) EXCEPT !.code = c]

enc_miss_tail(ctx, c) ==
    LET r  == lzw_enc_addstr(ctx, ctx.code, c)
        c1 == IF r[2] = NODE_NULL THEN lzw_enc_reset(r[1]) ELSE r[1]
        c2 == enc_log_done(c1, r[2] = NODE_NULL)
    IN  [c2 EXCEPT !.code = c]

enc_step_enc(ctx, c) ==
    LET nc == lzw_enc_findstr(ctx, ctx.code, c)
    IN  IF nc = HUNG THEN [ctx EXCEPT !.hung = TRUE]
        ELSE IF nc = NODE_NULL
        THEN enc_miss_tail(lzw_enc_write(ctx, ctx.code), c)
        ELSE [ctx EXCEPT !.code = nc]

(* Variant: the width grows one code early. *)
enc_widen_early(ctx) ==
    IF ctx.max + 2 = 2 ^ ctx.codesize
    THEN [ctx EXCEPT !.codesize = @ + 1] ELSE ctx

(* Variant: the width grows one code late. *)
enc_widen_late(ctx) ==
    IF ctx.max = 2 ^ ctx.codesize
    THEN [ctx EXCEPT !.codesize = @ + 1] ELSE ctx

(* part_002: widen after the code is written. *)
enc_widen_root(ctx) ==
    IF ctx.max + 1 = 2 ^ ctx.codesize
    THEN [ctx EXCEPT !.codesize = @ + 1] ELSE ctx

enc_step_root(ctx, c) ==
    LET nc == lzw_enc_findstr(ctx, ctx.code, c)
    IN  IF nc = HUNG THEN [ctx EXCEPT !.hung = TRUE]
        ELSE IF nc = NODE_NULL
        THEN LET c1 == lzw_enc_writebits(enc_log(ctx, ctx.code, ctx.codesize),
                                         ctx.code, ctx.codesize)
             IN  enc_miss_tail(enc_widen_root(c1), c)
        ELSE [ctx EXCEPT !.code = nc]

enc_step(ctx, c) ==
    IF ctx.impl = "enc" THEN enc_step_enc(ctx, c) ELSE enc_step_root(ctx, c)

RECURSIVE lzw_encode_buf(_, _)
lzw_encode_buf(ctx, buf) ==
    IF buf = <<>> \/ ctx.hung THEN ctx
    ELSE lzw_encode_buf(enc_step(ctx, Head(buf)), Tail(buf))

(***************************************************************************)
(* lzw_encode_end of each encoder.                                         *)
(***************************************************************************)
(* Variant: the bytes left in buff are not handed over at the end. *)
lzw_encode_end_enc_keep(ctx) ==
    lzw_enc_flushbits(lzw_enc_write(ctx, ctx.code))

lzw_encode_end_enc(ctx) ==
    LET c1 == lzw_enc_write(ctx, ctx.code)
        c2 == lzw_enc_flushbits(c1)
    IN  lzw_writebuf(c2, c2.buff)

(* Variant: no padding is written when no bit is pending. *)
lzw_encode_end_root_nopad(ctx) ==
    LET c1 == lzw_enc_writebits(enc_log(ctx, ctx.code, ctx.codesize),
                                ctx.code, ctx.codesize)
        c2 == IF c1.bb.n = 0 THEN c1
              ELSE lzw_enc_writebits(c1, 0, CHAR_BIT - c1.bb.n)
    IN  lzw_writebuf(c2, c2.buff)

lzw_encode_end_root(ctx) ==
    LET c1 == lzw_enc_writebits(enc_log(ctx, ctx.code, ctx.codesize),
                                ctx.code, ctx.codesize)
        c2 == lzw_enc_writebits(c1, 0, CHAR_BIT - c1.bb.n)
    IN  lzw_writebuf(c2, c2.buff)

lzw_encode_end(ctx) ==
    IF ctx.impl = "enc" THEN lzw_encode_end_enc(ctx)
    ELSE lzw_encode_end_root(ctx)

(***************************************************************************)
(* Decoder (src/src/lzw.c, from the second #include "lzw.h" on).           *)
(* ctx->dict[NODE_NULL].prev of lzw_dec_init is the element past the       *)
(* array: it overlays ctx->code under "alias".                             *)
(***************************************************************************)
ZeroDec ==
    [dict |-> <<>>, code |-> 0, max |-> 0, codesize |-> 0,
     bb |-> [buf |-> 0, n |-> 0], lzwn |-> 0, lzwm |-> 0, inbuff |-> <<>>,
     c |-> 0, stream |-> <<>>, ret |-> 0, rlog |-> <<>>, resets |-> 0]

dec_node(ctx, i) == DictRead(ctx.dict, i, ZeroNodeDec)

(* Variant: the decoder starts at CHAR_BIT + 1 bits. *)
lzw_dec_init_wide(ctx) ==
    [ctx EXCEPT !.dict = [i \in 0 .. (ALPHA - 1) |->
                            [prev |-> NODE_NULL, ch |-> i]],
                !.code = NODE_NULL, !.max = ALPHA - 1,
                !.codesize = CHAR_BIT + 1]

lzw_dec_init(ctx) ==
    LET roots == [i \in 0 .. (ALPHA - 1) |-> [prev |-> NODE_NULL, ch |-> i]]
        c0 == [ctx EXCEPT !.dict = roots]
        c1 == IF ub = "alias"
              THEN [c0 EXCEPT !.code = NODE_NULL]
              ELSE [c0 EXCEPT !.dict =
                      DictWrite(@, NODE_NULL,
                                [ZeroNodeDec EXCEPT !.prev = NODE_NULL])]
    IN  [c1 EXCEPT !.code = NODE_NULL, !.max = ALPHA - 1,
                   !.codesize = CHAR_BIT]

(***************************************************************************)
(* lzw_dec_readbits: <<context, bits>>, bits = -1 when the input buffer    *)
(* ends before nbits bits are available (the bytes taken stay in bb).      *)
(***************************************************************************)
RECURSIVE lzw_dec_readbits(_, _)
lzw_dec_readbits(ctx, nbits) ==
    IF ctx.bb.n < nbits
    THEN IF ctx.lzwn = ctx.lzwm
         THEN <<ctx, -1>>
         ELSE lzw_dec_readbits(
                [ctx EXCEPT !.bb = [buf |-> (@.buf * ALPHA)
                                            + ctx.inbuff[ctx.lzwn + 1],
                                    n |-> @.n + CHAR_BIT],
                            !.lzwn = @ + 1],
                nbits)
    ELSE LET n1   == ctx.bb.n - nbits
             bits == (ctx.bb.buf \div (2 ^ n1)) % (2 ^ nbits)
         IN  <<[ctx EXCEPT !.bb = [buf |-> ctx.bb.buf % (2 ^ n1), n |-> n1]],
               bits>>

(* Variant: the bits of an unfinished code are dropped at the end of the   *)
(* buffer.                                                                 *)
lzw_dec_readcode_drop(ctx) ==
    LET r == lzw_dec_readbits(ctx, ctx.codesize)
    IN  IF r[2] < 0 THEN <<[r[1] EXCEPT !.bb = [buf |-> 0, n |-> 0]], -1>>
        ELSE r

(* Variant: the code is returned and its bits stay in the bit buffer. *)
lzw_dec_readcode_peek(ctx) ==
    LET r == lzw_dec_readbits(ctx, ctx.codesize)
    IN  IF r[2] < 0 THEN r
        ELSE <<[r[1] EXCEPT !.bb = [buf |-> (@.buf * (2 ^ ctx.codesize)) + r[2],
                                    n |-> @.n + ctx.codesize]], r[2]>>

lzw_dec_readcode(ctx) == lzw_dec_readbits(ctx, ctx.codesize)

(***************************************************************************)
(* History of the decoder: one entry per code read.                        *)
(***************************************************************************)
dec_log(ctx, before, nc, width, kind) ==
    [ctx EXCEPT !.rlog = Append(@,
        [code |-> nc, width |-> width, kind |-> kind,
         maxBefore |-> before.max, csBefore |-> before.codesize,
         prevBefore |-> before.code, outBefore |-> Len(before.stream),
         maxAfter |-> ctx.max, csAfter |-> ctx.codesize,
         prevAfter |-> ctx.code, outAfter |-> Len(ctx.stream),
         reset |-> FALSE])]

dec_log_done(ctx, k, didReset) ==
    [ctx EXCEPT !.rlog[k] =
        [@ EXCEPT !.maxAfter = ctx.max, !.csAfter = ctx.codesize,
                  !.prevAfter = ctx.code, !.outAfter = Len(ctx.stream),
                  !.reset = didReset]]

(***************************************************************************)
(* lzw_dec_reset: the first code after the reset is read here.             *)
(***************************************************************************)
lzw_dec_reset(ctx) ==
    LET c1 == [ctx EXCEPT !.max = ALPHA - 1, !.codesize = CHAR_BIT,
                          !.resets = @ + 1]
        r  == lzw_dec_readbits(c1, c1.codesize)
        nc == r[2]
    IN  IF nc < 0 THEN r[1]
        ELSE LET c2 == [r[1] EXCEPT !.codesize = @ + 1, !.code = nc,
                                    !.c = nc % ALPHA]
                 c3 == lzw_writebuf(c2, <<c2.c>>)
             IN  dec_log(c3, c1, nc, c1.codesize, "reset")

(***************************************************************************)
(* lzw_dec_getstr: the string of code, built from its end; at most         *)
(* sizeof(ctx->buff) = DICT_SIZE bytes.                                    *)
(***************************************************************************)
RECURSIVE dec_getstr_from(_, _, _)
dec_getstr_from(ctx, code, i) ==
    IF code # NODE_NULL /\ i # 0
    THEN Append(dec_getstr_from(ctx, dec_node(ctx, code).prev, i - 1),
                dec_node(ctx, code).ch)
    ELSE <<>>

(* Variant: only the last byte of the string is produced. *)
lzw_dec_getstr_last(ctx, code) == dec_getstr_from(ctx, code, 1)

lzw_dec_getstr(ctx, code) == dec_getstr_from(ctx, code, DICT_SIZE)

(***************************************************************************)
(* lzw_dec_addstr: <<context, returned value>>.                            *)
(***************************************************************************)
(* Variant: an entry is inserted for the first code as well. *)
lzw_dec_addstr_first(ctx, code, c) ==
    IF ctx.max = NODE_NULL THEN <<ctx, NODE_NULL>>
    ELSE LET c1 == [ctx EXCEPT !.max = @ + 1]
         IN  <<[c1 EXCEPT !.dict =
                    DictWrite(@, c1.max, [prev |-> code, ch |-> c])],
               c1.max>>

lzw_dec_addstr(ctx, code, c) ==
    IF ctx.max = NODE_NULL THEN <<ctx, NODE_NULL>>
    ELSE IF code = NODE_NULL THEN <<ctx, c>>
    ELSE LET c1 == [ctx EXCEPT !.max = @ + 1]
         IN  <<[c1 EXCEPT !.dict =
                    DictWrite(@, c1.max, [prev |-> code, ch |-> c])],
               c1.max>>

(***************************************************************************)
(* lzw_dec_writestr: <<context, first symbol of the string>>.              *)
(***************************************************************************)
lzw_dec_writestr(ctx, code) ==
    IF code = NODE_NULL THEN <<ctx, 0>>
    ELSE LET str == lzw_dec_getstr(ctx, code)
         IN  <<lzw_writebuf(ctx, str), str[1]>>

(***************************************************************************)
(* The loop of lzw_decode_buf.  ret is the value returned.                 *)
(***************************************************************************)
(* Variant: the width grows one code late. *)
dec_widen_late(ctx) ==
    IF ctx.max = 2 ^ ctx.codesize
    THEN [ctx EXCEPT !.codesize = @ + 1] ELSE ctx

dec_widen_known(ctx) ==
    IF ctx.max + 1 = 2 ^ ctx.codesize
    THEN [ctx EXCEPT !.codesize = @ + 1] ELSE ctx

dec_widen_kwk(ctx, nc) ==
    IF nc + 1 = 2 ^ ctx.codesize
    THEN [ctx EXCEPT !.codesize = @ + 1] ELSE ctx

(* Variant: the overflow test is off by one. *)
dec_overflow_late(ctx) ==
    IF ctx.max = DICT_SIZE THEN lzw_dec_reset(ctx) ELSE ctx

(* Variant: on overflow only the width is set back. *)
dec_overflow_width(ctx) ==
    IF ctx.max = DICT_SIZE - 1 THEN [ctx EXCEPT !.codesize = CHAR_BIT]
    ELSE ctx

(* Variant: the decoder never resets. *)
dec_overflow_never(ctx) == ctx

dec_overflow(ctx) ==
    IF ctx.max = DICT_SIZE - 1 THEN lzw_dec_reset(ctx) ELSE ctx

(* Variant: the rejected code becomes the previous code. *)
dec_wrong_code_taken(ctx, nc) ==
    [ctx EXCEPT !.ret = LZW_ERR_WRONG_CODE, !.code = nc]

dec_wrong_code(ctx, nc) == [ctx EXCEPT !.ret = LZW_ERR_WRONG_CODE]

(***************************************************************************)
(* One iteration of the for (;;) loop: <<context, returned>>; returned is  *)
(* TRUE when the iteration ends in a return or in the break.               *)
(***************************************************************************)
dec_known(ctx, before, nc, k) ==
    LET w  == lzw_dec_writestr(ctx, nc)
        c1 == [w[1] EXCEPT !.c = w[2]]
        a  == lzw_dec_addstr(c1, c1.code, c1.c)
    IN  IF a[2] = NODE_NULL
        THEN <<[dec_log_done(a[1], k, FALSE)
                    EXCEPT !.ret = LZW_ERR_DICT_IS_FULL], TRUE>>
        ELSE LET c2 == dec_widen_known(a[1])
                 c3 == dec_overflow(c2)
                 c4 == [c3 EXCEPT !.code = nc]
             IN  <<dec_log_done(c4, k, c3.resets # c2.resets), FALSE>>

dec_unknown(ctx, before, nc, k) ==
    IF nc - 1 = ctx.max
    THEN LET a == lzw_dec_addstr(ctx, ctx.code, ctx.c)
         IN  IF a[2] = NODE_NULL
             THEN <<[dec_log_done(a[1], k, FALSE)
                        EXCEPT !.ret = LZW_ERR_DICT_IS_FULL], TRUE>>
             ELSE LET w  == lzw_dec_writestr(a[1], nc)
                      c1 == [w[1] EXCEPT !.c = w[2]]
                      c2 == dec_widen_kwk(c1, nc)
                      c3 == dec_overflow(c2)
                      c4 == [c3 EXCEPT !.code = nc]
                  IN  <<dec_log_done(c4, k, c3.resets # c2.resets), FALSE>>
    ELSE <<dec_wrong_code(ctx, nc), TRUE>>

dec_iter(ctx) ==
    LET r  == lzw_dec_readcode(ctx)
        c0 == r[1]
        nc == r[2]
    IN  IF nc < 0
        THEN IF c0.lzwn # c0.lzwm
             THEN <<[c0 EXCEPT !.ret = LZW_ERR_INPUT_BUF], TRUE>>
             ELSE <<[c0 EXCEPT !.ret = c0.lzwn], TRUE>>
        ELSE IF nc <= c0.max
        THEN dec_known(dec_log(c0, ctx, nc, ctx.codesize, "known"),
                       ctx, nc, Len(c0.rlog) + 1)
        ELSE dec_unknown(
                dec_log(c0, ctx, nc, ctx.codesize,
                        IF nc - 1 = c0.max THEN "kwk" ELSE "wrong"),
                ctx, nc, Len(c0.rlog) + 1)

RECURSIVE dec_loop(_)
dec_loop(ctx) ==
    LET r == dec_iter(ctx)
    IN  IF r[2] THEN r[1] ELSE dec_loop(r[1])

(* Variant: the value returned is the number of bytes left in the buffer. *)
lzw_decode_buf_left(ctx, buf) ==
    IF Len(buf) = 0 THEN [ctx EXCEPT !.ret = 0]
    ELSE LET r == dec_loop([ctx EXCEPT !.inbuff = buf, !.lzwn = 0,
                                       !.lzwm = Len(buf)])
         IN  IF r.ret >= 0 THEN [r EXCEPT !.ret = r.lzwm - r.lzwn] ELSE r

lzw_decode_buf(ctx, buf) ==
    IF Len(buf) = 0 THEN [ctx EXCEPT !.ret = 0]
    ELSE dec_loop([ctx EXCEPT !.inbuff = buf, !.lzwn = 0, !.lzwm = Len(buf)])

(***************************************************************************)
(* The state machine.  pc is the application's position: "enc" while it    *)
(* feeds lzw_encode_buf, "dec" once lzw_encode_end has returned and the    *)
(* stream is complete, "done" when lzw_decode_buf has returned an error or *)
(* has been given the whole stream.  fed counts the bytes of wire already  *)
(* handed to lzw_decode_buf.  cfg.chunk = 0: the application decodes the   *)
(* stream in one call; cfg.chunk = n > 0: in calls of 1..n bytes.          *)
(***************************************************************************)
SeqsUpTo(S, n) == UNION {[1 .. k -> S] : k \in 0 .. n}

ScaledCfg ==
    [cb |-> ScaledCharBit, mw |-> ScaledMaxWidth, bufsz |-> ScaledBuffSize,
     syms |-> {0, (2 ^ ScaledCharBit) - 1}, maxlen |-> MaxLen, chunk |-> 0]

RealCfg ==
    [cb |-> RealCharBit, mw |-> RealMaxWidth, bufsz |-> RealBuffSize,
     syms |-> {0, 1, 66}, maxlen |-> MaxLenReal,
     chunk |-> 0]

InitWith(c) ==
    /\ cfg = c
    /\ ub \in {"alias", "own"}
    /\ pc = "enc"
    /\ inp = <<>>
    /\ enc \in {lzw_enc_init(ZeroEnc(i)) : i \in {"enc", "root"}}
    /\ wire = <<>>
    /\ fed = 0
    /\ dec = lzw_dec_init(ZeroDec)

Init == InitWith(ScaledCfg)

(***************************************************************************)
(* The real constants with the bytes 'A' and 'B' as input, decoded in      *)
(* calls of 1..MaxChunk bytes.                                             *)
(***************************************************************************)
ABCfg ==
    [RealCfg EXCEPT !.syms = {65, 66}, !.maxlen = MaxLenAB,
                    !.chunk = MaxChunk]

InitAB == InitWith(ABCfg)

InitReal == InitWith(RealCfg)

(***************************************************************************)
(* A long run of the byte 0x00: CHAR_BIT = 8 and codes of up to            *)
(* ZerosMaxWidth bits, the input twice as long as the dictionary           *)
(* (2 MiB for DICT_SIZE = 2^20).                                           *)
(***************************************************************************)
ZerosCfg ==
    [RealCfg EXCEPT !.mw = ZerosMaxWidth, !.syms = {0},
                    !.maxlen = 2 * (2 ^ ZerosMaxWidth)]

InitZeros == InitWith(ZerosCfg)

(***************************************************************************)
(* The decoder alone, given arbitrary bytes in calls of any size.          *)
(***************************************************************************)
InitDec ==
    /\ cfg = [ScaledCfg EXCEPT !.chunk = MaxWire]
    /\ ub \in {"alias", "own"}
    /\ pc = "dec"
    /\ inp = <<>>
    /\ enc = lzw_enc_init(ZeroEnc("root"))
    /\ wire \in SeqsUpTo(0 .. ((2 ^ ScaledCharBit) - 1), MaxWire)
    /\ fed = 0
    /\ dec = lzw_dec_init(ZeroDec)

(***************************************************************************)
(* The application uses one encoder context for several streams: after     *)
(* lzw_encode_end it calls lzw_enc_init on the same context, with a new    *)
(* output stream, and encodes another input.                               *)
(***************************************************************************)
ReinitCfg == [ScaledCfg EXCEPT !.maxlen = MaxLenReinit]

InitReinit == InitWith(ReinitCfg)

(***************************************************************************)
(* The decoder alone with a byte shorter than every code but the first, so *)
(* that a code spans several bytes and a call can end more than once       *)
(* inside the same code.  The stream is made of the bytes with all bits    *)
(* clear and all bits set.                                                 *)
(***************************************************************************)
PendCfg ==
    [ScaledCfg EXCEPT !.cb = PendCharBit, !.syms = {0, (2 ^ PendCharBit) - 1},
                      !.chunk = MaxChunk]

InitPend ==
    /\ cfg = PendCfg
    /\ ub \in {"alias", "own"}
    /\ pc = "dec"
    /\ inp = <<>>
    /\ enc = lzw_enc_init(ZeroEnc("root"))
    /\ wire \in SeqsUpTo(PendCfg.syms, MaxWirePend)
    /\ fed = 0
    /\ dec = lzw_dec_init(ZeroDec)

(***************************************************************************)
(* Well-formed and arbitrary streams together: the application either      *)
(* encodes an input and decodes the result, or hands the decoder arbitrary *)
(* bytes; in both cases in calls of any size.                              *)
(***************************************************************************)
FillCfg == [ScaledCfg EXCEPT !.maxlen = MaxLenFill, !.chunk = MaxChunk]

InitFill ==
    /\ cfg = FillCfg
    /\ ub \in {"alias", "own"}
    /\ inp = <<>>
    /\ fed = 0
    /\ dec = lzw_dec_init(ZeroDec)
    /\ \/ /\ pc = "enc"
          /\ enc \in {lzw_enc_init(ZeroEnc(i)) : i \in {"enc", "root"}}
          /\ wire = <<>>
       \/ /\ pc = "dec"
          /\ enc = lzw_enc_init(ZeroEnc("root"))
          /\ wire \in SeqsUpTo(0 .. ((2 ^ ScaledCharBit) - 1), MaxWireFill)

EncodeBuf(buf) ==
    /\ pc = "enc"
    /\ ~enc.hung
    /\ Len(inp) + Len(buf) <= cfg.maxlen
    /\ enc' = lzw_encode_buf(enc, buf)
    /\ inp' = inp \o buf
    /\ UNCHANGED <<cfg, ub, pc, wire, fed, dec>>

EncodeEnd ==
    /\ pc = "enc"
    /\ ~enc.hung
    /\ enc' = lzw_encode_end(enc)
    /\ wire' = enc'.stream
    /\ pc' = "dec"
    /\ UNCHANGED <<cfg, ub, inp, fed, dec>>

(***************************************************************************)
(* The application encodes n more bytes 0x00, in calls of lzw_encode_buf   *)
(* with at most ZerosBuf bytes each.                                       *)
(***************************************************************************)
RECURSIVE encode_zeros(_, _)
encode_zeros(ctx, n) ==
    IF n = 0 \/ ctx.hung THEN ctx
    ELSE LET m == IF n < ZerosBuf THEN n ELSE ZerosBuf
         IN  encode_zeros(lzw_encode_buf(ctx, [i \in 1 .. m |-> 0]), n - m)

EncodeZeros ==
    /\ pc = "enc"
    /\ ~enc.hung
    /\ Len(inp) < cfg.maxlen
    /\ LET left == cfg.maxlen - Len(inp)
           n    == IF left < ZerosBuf * ZerosCalls THEN left
                   ELSE ZerosBuf * ZerosCalls
       IN  /\ enc' = encode_zeros(enc, n)
           /\ inp' = inp \o [i \in 1 .. n |-> 0]
    /\ UNCHANGED <<cfg, ub, pc, wire, fed, dec>>

ChunkSizes ==
    IF cfg.chunk = 0 \/ Len(wire) = fed
    THEN {Len(wire) - fed}
    ELSE {n \in 1 .. cfg.chunk : fed + n <= Len(wire)}

DecodeBuf(size) ==
    /\ pc = "dec"
    /\ dec' = lzw_decode_buf(dec, SubSeq(wire, fed + 1, fed + size))
    /\ fed' = fed + size
    /\ pc' = IF dec'.ret < 0 \/ fed' = Len(wire) THEN "done" ELSE "dec"
    /\ UNCHANGED <<cfg, ub, inp, enc, wire>>

Next ==
    \/ \E buf \in SeqsUpTo(cfg.syms, MaxBuf) : EncodeBuf(buf)
    \/ EncodeEnd
    \/ \E size \in ChunkSizes : DecodeBuf(size)

(***************************************************************************)
(* The bit buffer alone, with the real byte size: lzw_enc_writebits for a  *)
(* sequence of (code, width), lzw_enc_flushbits, then the bytes the        *)
(* encoder holds (those handed to lzw_writebuf and those still in buff)    *)
(* become the decoder's input buffer and lzw_dec_readbits is called with   *)
(* the same widths in order.  wlog holds the codes written, rlog the       *)
(* values returned.                                                        *)
(***************************************************************************)
BitWidths == {1, 4, 8, 9, 12, 24}

BitCodes(w) == {0, 1, 2 ^ (w - 1), (2 ^ w) - 1}

InitBits ==
    /\ cfg = RealCfg
    /\ ub \in {"alias", "own"}
    /\ pc = "bits"
    /\ inp = <<>>
    /\ enc = lzw_enc_init(ZeroEnc("enc"))
    /\ wire = <<>>
    /\ fed = 0
    /\ dec = lzw_dec_init(ZeroDec)

WriteBits(c, w) ==
    /\ pc = "bits"
    /\ Len(enc.wlog) < MaxCodes
    /\ enc' = lzw_enc_writebits(enc_log(enc, c, w), c, w)
    /\ UNCHANGED <<cfg, ub, pc, inp, wire, fed, dec>>

FlushBits ==
    /\ pc = "bits"
    /\ enc' = lzw_enc_flushbits(enc)
    /\ wire' = enc'.stream \o enc'.buff
    /\ dec' = [dec EXCEPT !.inbuff = wire', !.lzwn = 0, !.lzwm = Len(wire')]
    /\ pc' = "read"
    /\ UNCHANGED <<cfg, ub, inp, fed>>

ReadBits ==
    /\ pc = "read"
    /\ Len(dec.rlog) < Len(enc.wlog)
    /\ LET w == enc.wlog[Len(dec.rlog) + 1].width
           r == lzw_dec_readbits(dec, w)
       IN  dec' = [r[1] EXCEPT !.rlog = Append(@, [code |-> r[2], width |-> w])]
    /\ fed' = dec'.lzwn
    /\ UNCHANGED <<cfg, ub, pc, inp, enc, wire>>

NextBits ==
    \/ \E w \in BitWidths : \E c \in BitCodes(w) : WriteBits(c, w)
    \/ FlushBits
    \/ ReadBits

NextDec == \E size \in ChunkSizes : DecodeBuf(size)

(***************************************************************************)
(* The application loses the last byte of the stream: the decoder is given *)
(* everything lzw_writebuf received except the final byte.                 *)
(***************************************************************************)
EncodeEndTruncated ==
    /\ pc = "enc"
    /\ ~enc.hung
    /\ enc' = lzw_encode_end(enc)
    /\ wire' = SubSeq(enc'.stream, 1, Len(enc'.stream) - 1)
    /\ pc' = "dec"
    /\ UNCHANGED <<cfg, ub, inp, fed, dec>>

NextTrunc ==
    \/ \E buf \in SeqsUpTo(cfg.syms, MaxBuf) : EncodeBuf(buf)
    \/ EncodeEndTruncated
    \/ \E size \in ChunkSizes : DecodeBuf(size)

(***************************************************************************)
(* lzw_enc_init on the context of a finished stream.  The application      *)
(* supplies a new, empty output stream; the history starts again.          *)
(***************************************************************************)
Reinit ==
    /\ pc = "dec"
    /\ enc.gen < MaxStreams - 1
    /\ enc' = lzw_enc_init([enc EXCEPT !.stream = <<>>, !.wlog = <<>>,
                                       !.resets = 0, !.xlog = <<>>,
                                       !.wcalls = <<>>, !.gen = @ + 1])
    /\ inp' = <<>>
    /\ wire' = <<>>
    /\ pc' = "enc"
    /\ UNCHANGED <<cfg, ub, fed, dec>>

NextReinit ==
    \/ \E buf \in SeqsUpTo(cfg.syms, MaxBuf) : EncodeBuf(buf)
    \/ EncodeEnd
    \/ Reinit

(***************************************************************************)
(* lzw_decode_buf step by step: the call stores the buffer in the context, *)
(* then each step is one iteration of the for (;;) loop.  pc = "loop"      *)
(* while the call has not returned.  The stream is made of the bytes with  *)
(* all bits clear and all bits set, given in calls of 1..MaxChunk bytes.   *)
(***************************************************************************)
InitLoop ==
    /\ cfg = [ScaledCfg EXCEPT !.chunk = MaxChunk]
    /\ ub \in {"alias", "own"}
    /\ pc = "dec"
    /\ inp = <<>>
    /\ enc = lzw_enc_init(ZeroEnc("root"))
    /\ wire \in SeqsUpTo(ScaledCfg.syms, MaxWireLoop)
    /\ fed = 0
    /\ dec = lzw_dec_init(ZeroDec)

DecodeCall(size) ==
    /\ pc = "dec"
    /\ dec' = IF size = 0 THEN [dec EXCEPT !.ret = 0]
              ELSE [dec EXCEPT !.inbuff = SubSeq(wire, fed + 1, fed + size),
                               !.lzwn = 0, !.lzwm = size]
    /\ fed' = fed + size
    /\ pc' = IF size = 0 THEN "done" ELSE "loop"
    /\ UNCHANGED <<cfg, ub, inp, enc, wire>>

DecodeIter ==
    /\ pc = "loop"
    /\ LET r == dec_iter(dec)
       IN  /\ dec' = r[1]
           /\ pc' = IF ~r[2] THEN "loop"
                    ELSE IF r[1].ret < 0 \/ fed = Len(wire) THEN "done"
                    ELSE "dec"
    /\ UNCHANGED <<cfg, ub, inp, enc, wire, fed>>

NextLoop ==
    \/ \E size \in ChunkSizes : DecodeCall(size)
    \/ DecodeIter

(***************************************************************************)
(* A call that was made runs on: nothing suspends the loop from outside.   *)
(* LoopFair is weak fairness of DecodeIter, WF_vars(DecodeIter), written   *)
(* without ENABLED: DecodeIter is defined for every state with             *)
(* pc = "loop" and changes pc or the number of bits at hand, so it is      *)
(* enabled exactly there.                                                  *)
(***************************************************************************)
LoopFair == []<>(pc # "loop") \/ []<><<DecodeIter>>_vars

Spec == Init /\ [][Next]_vars

SpecReal == InitReal /\ [][Next]_vars

SpecDec == InitDec /\ [][NextDec]_vars

SpecFill == InitFill /\ [][Next]_vars

SpecBits == InitBits /\ [][NextBits]_vars

SpecAB == InitAB /\ [][Next]_vars

SpecZeros == InitZeros /\ [][EncodeZeros]_vars

SpecTrunc == InitReal /\ [][NextTrunc]_vars

SpecPend == InitPend /\ [][NextDec]_vars

SpecReinit == InitReinit /\ [][NextReinit]_vars

SpecLoop == InitLoop /\ [][NextLoop]_vars /\ LoopFair

(***************************************************************************)
(* Properties.  wlog[k] is the k-th code the encoder wrote and rlog[k] the *)
(* k-th code the decoder read.  The entry of a code written in the miss    *)
(* path of lzw_encode_buf is completed when that iteration ends; the last  *)
(* entry of a finished stream is the code written by lzw_encode_end.       *)
(***************************************************************************)
Min(a, b) == IF a < b THEN a ELSE b

FirstReset(log) ==
    IF \E k \in DOMAIN log : log[k].reset
    THEN CHOOSE k \in DOMAIN log :
            log[k].reset /\ \A j \in 1 .. (k - 1) : ~log[j].reset
    ELSE Len(log) + 1

Finished(impl) == pc = "done" /\ enc.impl = impl

(***************************************************************************)
(* C1.  Round trip with the encoder of src/src/lzw-enc.c: for every input, *)
(* the empty one included, the decoder writes exactly the input.           *)
(***************************************************************************)
C1_RoundTripEnc == Finished("enc") => dec.stream = inp

(***************************************************************************)
(* C2.  Round trip with the encoder of src/unnamed/part_002: for every     *)
(* non-empty input during which the dictionary never fills (max stays      *)
(* below DICT_SIZE - 1, so neither side resets), the decoder writes        *)
(* exactly the input and consumes the whole stream.                        *)
(***************************************************************************)
C2_RoundTripRoot ==
    (Finished("root") /\ inp # <<>> /\ enc.resets = 0 /\ dec.resets = 0)
        => (dec.stream = inp /\ dec.ret = Len(wire))

C2_Witness ==
    /\ Finished("root")
    /\ enc.resets = 0 /\ dec.resets = 0
    /\ Len(inp) >= 6
    /\ dec.stream = inp
    /\ \E k \in DOMAIN dec.rlog : dec.rlog[k].kind = "kwk"
    /\ \E k \in DOMAIN dec.rlog : dec.rlog[k].width = cfg.mw

(***************************************************************************)
(* C3.  Round trip across dictionary resets: for every input that fills    *)
(* the dictionary at least twice (encoder of src/unnamed/part_002), the    *)
(* decoder writes exactly the input.                                       *)
(***************************************************************************)
C3_RoundTripResets ==
    (Finished("root") /\ enc.resets >= 2) => dec.stream = inp

(***************************************************************************)
(* C4.  Reset lockstep with the encoder of src/src/lzw-enc.c: whenever the *)
(* encoder resets in the miss path that wrote its k-th code, the decoder   *)
(* resets after processing the k-th code, and the code that follows is     *)
(* written and read with the same width.                                   *)
(***************************************************************************)
C4_ResetLockstep ==
    Finished("enc") =>
        \A k \in DOMAIN enc.wlog :
            enc.wlog[k].reset =>
                /\ k \in DOMAIN dec.rlog
                /\ dec.rlog[k].reset
                /\ (k + 1) \in DOMAIN enc.wlog =>
                      /\ (k + 1) \in DOMAIN dec.rlog
                      /\ dec.rlog[k + 1].width = enc.wlog[k + 1].width

(***************************************************************************)
(* C5.  Width lockstep with the encoder of src/unnamed/part_002: up to and *)
(* including the code whose miss path fills the dictionary for the first   *)
(* time, the k-th code is read with the width it was written with.         *)
(***************************************************************************)
C5_WidthLockstep ==
    Finished("root") =>
        \A k \in 1 .. Min(Len(enc.wlog), FirstReset(enc.wlog)) :
            /\ k \in DOMAIN dec.rlog
            /\ dec.rlog[k].width = enc.wlog[k].width

C5_Witness ==
    /\ Finished("root")
    /\ FirstReset(enc.wlog) <= Len(enc.wlog)
    /\ \E k \in 1 .. FirstReset(enc.wlog) :
          enc.wlog[k].width = cfg.mw /\ dec.rlog[k].width = cfg.mw
    /\ dec.rlog[1].width = CHAR_BIT

(***************************************************************************)
(* C6.  Dictionary symmetry as stated: after the miss step that wrote the  *)
(* k-th code and after the decoder processed the k-th code, the encoder's  *)
(* max equals the decoder's max (encoder of src/unnamed/part_002).         *)
(***************************************************************************)
C6_MaxEqual ==
    Finished("root") =>
        \A k \in 1 .. (Len(enc.wlog) - 1) :
            k \in DOMAIN dec.rlog
                => enc.wlog[k].maxAfter = dec.rlog[k].maxAfter

(***************************************************************************)
(* C6, as the code behaves: up to the first dictionary fill the decoder    *)
(* is one insertion behind (it inserts nothing for the first code), so the *)
(* encoder's max is the decoder's max plus one; at the step that fills the *)
(* dictionary both sides reset and both max are ALPHA - 1.                 *)
(***************************************************************************)
C6_MaxOneAhead ==
    Finished("root") =>
        \A k \in 1 .. Min(Len(enc.wlog) - 1, FirstReset(enc.wlog)) :
            /\ k \in DOMAIN dec.rlog
            /\ IF enc.wlog[k].reset
               THEN /\ dec.rlog[k].reset
                    /\ enc.wlog[k].maxAfter = ALPHA - 1
                    /\ dec.rlog[k].maxAfter = ALPHA - 1
               ELSE enc.wlog[k].maxAfter = dec.rlog[k].maxAfter + 1

C6_Witness ==
    /\ Finished("root")
    /\ FirstReset(enc.wlog) < Len(enc.wlog)
    /\ dec.rlog[FirstReset(enc.wlog)].reset
    /\ enc.wlog[1].maxAfter = ALPHA
    /\ dec.rlog[1].maxAfter = ALPHA - 1

(***************************************************************************)
(* C7.  Between calls the code width of the encoder and of the decoder is  *)
(* at most MAX_WIDTH (DICT_SIZE = 2^MAX_WIDTH), and so is the width of     *)
(* every code written or read.                                             *)
(***************************************************************************)
C7_WidthBound ==
    /\ enc.codesize <= cfg.mw
    /\ dec.codesize <= cfg.mw
    /\ \A k \in DOMAIN enc.wlog : enc.wlog[k].width <= cfg.mw
    /\ \A k \in DOMAIN dec.rlog : dec.rlog[k].width <= cfg.mw

C7_Witness ==
    /\ Finished("enc")
    /\ enc.resets >= 2
    /\ dec.resets >= 1
    /\ \E k \in DOMAIN enc.wlog : enc.wlog[k].width = cfg.mw
    /\ \E k \in DOMAIN dec.rlog : dec.rlog[k].width = cfg.mw

(***************************************************************************)
(* C8.  As stated: right after lzw_enc_init and lzw_dec_init the width is  *)
(* 9 and max is 255, and the first code of a stream is written and read    *)
(* with 9 bits.                                                            *)
(***************************************************************************)
C8_InitWidth9 ==
    /\ (pc = "enc" /\ inp = <<>>) => (enc.codesize = 9 /\ enc.max = 255)
    /\ (pc # "done") => (dec.codesize = 9 /\ dec.max = 255)
    /\ enc.wlog # <<>> => enc.wlog[1].width = 9
    /\ dec.rlog # <<>> => dec.rlog[1].width = 9

(***************************************************************************)
(* C8, as the code behaves: right after lzw_enc_init and lzw_dec_init the  *)
(* width is 8 and max is 255; the first code of a stream is written and    *)
(* read with 8 bits, and the decoder's width is 9 once it processed it.    *)
(***************************************************************************)
C8_InitWidth8 ==
    /\ (pc = "enc" /\ inp = <<>>) => (enc.codesize = 8 /\ enc.max = 255)
    /\ (pc # "done") => (dec.codesize = 8 /\ dec.max = 255)
    /\ enc.wlog # <<>> => enc.wlog[1].width = 8
    /\ dec.rlog # <<>> =>
          /\ dec.rlog[1].width = 8
          /\ dec.rlog[1].csBefore = 8
          /\ dec.rlog[1].maxBefore = 255
          /\ dec.rlog[1].csAfter = 9

C8_Witness ==
    /\ pc = "done"
    /\ Len(enc.wlog) >= 2
    /\ Len(dec.rlog) >= 2
    /\ enc.wlog[1].width = 8
    /\ dec.rlog[1].width = 8
    /\ dec.rlog[2].width = 9

WrongCode(e) == e.code > e.maxBefore + 1

C10_WrongCode ==
    LET n == Len(dec.rlog)
    IN  /\ (dec.ret = LZW_ERR_WRONG_CODE)
              <=> (n > 0 /\ WrongCode(dec.rlog[n]))
        /\ \A k \in 1 .. (n - 1) : ~WrongCode(dec.rlog[k])
        /\ (n > 0 /\ WrongCode(dec.rlog[n])) =>
              /\ Len(dec.stream) = dec.rlog[n].outBefore
              /\ dec.max = dec.rlog[n].maxBefore
              /\ dec.codesize = dec.rlog[n].csBefore
              /\ dec.code = dec.rlog[n].prevBefore

C10_Witness ==
    /\ dec.ret = LZW_ERR_WRONG_CODE
    /\ Len(dec.rlog) >= 3
    /\ dec.stream # <<>>
    /\ dec.max >= ALPHA

(***************************************************************************)
(* C11.  Truncated stream (the last byte of a valid stream removed): when  *)
(* the input ends while the bits left in the accumulator do not form a     *)
(* complete code, lzw_decode_buf returns LZW_ERR_INPUT_BUF.                *)
(***************************************************************************)
C11_TruncatedUnderrun ==
    (pc = "done" /\ dec.bb.n > 0) => dec.ret = LZW_ERR_INPUT_BUF

(***************************************************************************)
(* C12.  Dictionary fill is never an error: whatever bytes the decoder is  *)
(* given, in whatever calls, lzw_decode_buf never returns                  *)
(* LZW_ERR_DICT_IS_FULL; and an lzw_encode_buf call for one byte in which  *)
(* the insertion fails resets the encoder, writes the pending code and     *)
(* goes on with that byte as the new prefix.                               *)
(***************************************************************************)
C12_EncoderResets ==
    (/\ pc = "enc"
     /\ Len(inp') = Len(inp) + 1
     /\ enc'.resets = enc.resets + 1)
        => /\ enc'.code = inp'[Len(inp')]
           /\ enc'.max = ALPHA - 1
           /\ Len(enc'.wlog) = Len(enc.wlog) + 1
           /\ ~enc'.hung

C12_FillNotError ==
    /\ [](dec.ret # LZW_ERR_DICT_IS_FULL)
    /\ [][C12_EncoderResets]_vars

C12_Witness ==
    /\ pc = "done"
    /\ inp = <<>>
    /\ wire # <<>>
    /\ dec.resets >= 1
    /\ fed = Len(wire)
    /\ dec.ret > 0

(***************************************************************************)
(* C13.  Bit-packing round trip: after lzw_enc_writebits for a sequence of *)
(* (code, width) and lzw_enc_flushbits, lzw_dec_readbits with the same     *)
(* widths returns the codes written, in order.                             *)
(***************************************************************************)
C13_BitsRoundTrip ==
    pc = "read" =>
        \A k \in DOMAIN dec.rlog : dec.rlog[k].code = enc.wlog[k].code

(***************************************************************************)
(* C14.  Prefix invariant: in the encoder of src/src/lzw-enc.c and in the  *)
(* decoder (whichever encoder produced its input) every code i             *)
(* with ALPHA (256) <= i <= max has prev[i] < i, and walking the parent    *)
(* chain from i visits exactly one node more than walking it from prev[i]. *)
(* The walk stops at NODE_NULL; a chain that never reaches it is cut at    *)
(* DICT_SIZE + 2 nodes, which no chain without a cycle attains.            *)
(***************************************************************************)
RECURSIVE ChainLen(_, _, _)
ChainLen(prev, code, fuel) ==
    IF code \notin DOMAIN prev \/ code = NODE_NULL \/ fuel = 0 THEN 0
    ELSE 1 + ChainLen(prev, prev[code], fuel - 1)

EncPrev == [i \in 0 .. (NODE_NULL - 1) |-> enc_node(enc, i).prev]

DecPrev == [i \in 0 .. (NODE_NULL - 1) |-> dec_node(dec, i).prev]

PrefixOK(prev, max) ==
    \A i \in ALPHA .. max :
        /\ prev[i] < i
        /\ ChainLen(prev, i, DICT_SIZE + 2)
              = ChainLen(prev, prev[i], DICT_SIZE + 2) + 1

C14_PrefixInvariant ==
    /\ enc.impl = "enc" => PrefixOK(EncPrev, Min(enc.max, NODE_NULL - 1))
    /\ PrefixOK(DecPrev, Min(dec.max, NODE_NULL - 1))

(***************************************************************************)
(* C15.  The encoder's max never exceeds DICT_SIZE - 1, and in every       *)
(* state the encoder reaches lzw_enc_addstr, called for a code of the      *)
(* dictionary and any byte, returns NODE_NULL and leaves the context as it *)
(* is when max = DICT_SIZE - 1, and otherwise returns max + 1 and          *)
(* increments max by one.                                                  *)
(***************************************************************************)
C15_AddstrBound ==
    pc = "enc" =>
        /\ enc.max <= DICT_SIZE - 1
        /\ \A code \in 0 .. enc.max : \A c \in 0 .. (ALPHA - 1) :
              LET r == lzw_enc_addstr(enc, code, c)
              IN  IF enc.max = DICT_SIZE - 1
                  THEN r[2] = NODE_NULL /\ r[1] = enc
                  ELSE r[2] = enc.max + 1 /\ r[1].max = enc.max + 1

(***************************************************************************)
(* C16.  Empty input: lzw_enc_init followed by lzw_encode_end produces no  *)
(* output or exactly one zero byte, and decoding that output writes no     *)
(* bytes.                                                                  *)
(***************************************************************************)
C16_EmptyInput ==
    (pc = "done" /\ inp = <<>>)
        => (wire \in {<<>>, <<0>>} /\ dec.stream = <<>>)

(***************************************************************************)
(* C17.  As stated: for the one-byte input 'A' the encoder writes exactly  *)
(* one code, the 9-bit value 0x041, and the complete output is 0x20 0x80.  *)
(***************************************************************************)
InputA == <<65>>

CodesWritten == [k \in DOMAIN enc.wlog |-> enc.wlog[k].code]

WidthsWritten == [k \in DOMAIN enc.wlog |-> enc.wlog[k].width]

InputABx5 == <<65, 66, 65, 66, 65, 66, 65, 66, 65, 66>>

C18_CodesAsStated ==
    (pc # "enc" /\ inp = InputABx5)
        => CodesWritten = <<65, 66, 256, 258, 258>>

(***************************************************************************)
(* C18, as the code behaves: for the input "ABABABABAB" the encoder of     *)
(* src/unnamed/part_002, lzw_encode_end included, writes exactly the codes *)
(* 'A', 'B', 256, 258, 257, 'B' (A, B, AB, ABA, BA, B), the first with 8   *)
(* bits and the others with 9, and the decoder writes the input.           *)
(***************************************************************************)
C18_CodesWritten ==
    (pc # "enc" /\ inp = InputABx5 /\ enc.impl = "root")
        => /\ CodesWritten = <<65, 66, 256, 258, 257, 66>>
           /\ WidthsWritten = <<8, 9, 9, 9, 9, 9>>
           /\ pc = "done" => dec.stream = inp

C18_Witness ==
    /\ Finished("root")
    /\ inp = InputABx5
    /\ Len(enc.wlog) = 6
    /\ dec.stream = InputABx5

(***************************************************************************)
(* C19.  For the input "AAAAAA" encoded with the encoder of                *)
(* src/unnamed/part_002, the decoder takes the unknown-code branch         *)
(* nc = max + 1 at least once, returns no error in any call, and has       *)
(* written exactly the six input bytes when the whole stream was given.    *)
(***************************************************************************)
InputAx6 == <<65, 65, 65, 65, 65, 65>>

C19_KwKRoundTrip ==
    (inp = InputAx6 /\ enc.impl = "root")
        => /\ dec.ret >= 0
           /\ pc = "done" =>
                 /\ \E k \in DOMAIN dec.rlog :
                       /\ dec.rlog[k].kind = "kwk"
                       /\ dec.rlog[k].code = dec.rlog[k].maxBefore + 1
                 /\ dec.stream = inp

C19_Witness ==
    /\ Finished("root")
    /\ inp = InputAx6
    /\ fed = Len(wire)
    /\ dec.stream = InputAx6
    /\ \E k \in DOMAIN dec.rlog : dec.rlog[k].kind = "kwk"

(***************************************************************************)
(* C20.  As stated: encoding a run of 0x00 twice as long as the dictionary *)
(* (2 MiB for DICT_SIZE = 2^20) makes the encoder reach lzw_enc_reset at   *)
(* least once.                                                             *)
(***************************************************************************)
ZerosDone == pc = "enc" /\ Len(inp) = 2 * DICT_SIZE

C20_ZerosReset == ZerosDone => enc.resets >= 1

(***************************************************************************)
(* C20, as the code behaves: a run of n bytes 0x00 enters e strings with   *)
(* e * (e + 1) / 2 <= n, so a run twice as long as the dictionary leaves   *)
(* max far below DICT_SIZE - 1 and the dictionary is never full.  The      *)
(* encoder of src/unnamed/part_002 never calls lzw_enc_reset; the encoder  *)
(* of src/src/lzw-enc.c calls it once, for the first byte, when the        *)
(* insertion under the prefix NODE_NULL fails.                             *)
(***************************************************************************)
C20_ZerosNoFill ==
    (pc = "enc" /\ cfg.syms = {0}) =>
        LET e == enc.max - (ALPHA - 1)
        IN  /\ e * (e + 1) <= 2 * Len(inp)
            /\ \A k \in DOMAIN enc.wlog :
                  /\ enc.wlog[k].maxAfter < DICT_SIZE - 1
                  /\ enc.wlog[k].reset =>
                        (enc.impl = "enc" /\ k = 1
                         /\ enc.wlog[k].code = NODE_NULL)
            /\ enc.resets = IF enc.impl = "enc" /\ inp # <<>> THEN 1 ELSE 0

C20_Witness ==
    /\ ZerosDone
    /\ enc.impl = "root"
    /\ enc.resets = 0
    /\ enc.max > ALPHA

(***************************************************************************)
(* C21.  Stream adapter: between operations the byte counter lzwn is in    *)
(* 0 .. sizeof(buff) - 1; every lzw_writebuf call made from lzw_encode_buf *)
(* passes exactly sizeof(buff) bytes; the buffers passed to lzw_writebuf,  *)
(* in call order and through lzw_encode_end, are the bytes taken out of    *)
(* the bit buffer, in order, none lost and none twice.                     *)
(***************************************************************************)
RECURSIVE SumSeq(_)
SumSeq(q) == IF q = <<>> THEN 0 ELSE Head(q) + SumSeq(Tail(q))

C21_StreamAdapter ==
    /\ Len(enc.buff) \in 0 .. (BUFF_SIZE - 1)
    /\ SumSeq(enc.wcalls) = Len(enc.stream)
    /\ pc = "enc" =>
          /\ \A k \in DOMAIN enc.wcalls : enc.wcalls[k] = BUFF_SIZE
          /\ enc.stream \o enc.buff = enc.xlog
    /\ pc \in {"dec", "done"} =>
          /\ enc.stream = enc.xlog
          /\ \A k \in 1 .. (Len(enc.wcalls) - 1) : enc.wcalls[k] = BUFF_SIZE

C21_Witness ==
    /\ pc = "dec"
    /\ enc.impl = "enc"
    /\ Len(enc.wcalls) = 2
    /\ enc.wcalls[2] \in 1 .. (BUFF_SIZE - 1)

(***************************************************************************)
(* C22.  Width monotonicity within an epoch: from one code to the next the *)
(* code width of the encoder, and of the decoder, never decreases unless a *)
(* dictionary reset lies between them.                                     *)
(***************************************************************************)
EncWidthMonotone ==
    /\ \A k \in DOMAIN enc.wlog :
          /\ ~enc.wlog[k].reset => enc.wlog[k].csAfter >= enc.wlog[k].width
          /\ k > 1 => enc.wlog[k].width >= enc.wlog[k - 1].csAfter
    /\ enc.wlog # <<>> => enc.codesize >= enc.wlog[Len(enc.wlog)].csAfter

DecWidthMonotone ==
    /\ \A k \in DOMAIN dec.rlog :
          /\ ~dec.rlog[k].reset => dec.rlog[k].csAfter >= dec.rlog[k].csBefore
          /\ (k > 1 /\ dec.rlog[k].kind # "reset")
                => dec.rlog[k].csBefore >= dec.rlog[k - 1].csAfter
    /\ (dec.rlog # <<>> /\ dec.ret >= 0)
          => dec.codesize >= dec.rlog[Len(dec.rlog)].csAfter

C22_WidthMonotone == EncWidthMonotone /\ DecWidthMonotone

C22_Witness ==
    /\ Finished("root")
    /\ \E k \in DOMAIN enc.wlog : \E j \in DOMAIN enc.wlog :
          /\ k < j
          /\ enc.wlog[k].width > CHAR_BIT
          /\ enc.wlog[k].reset
          /\ enc.wlog[j].csAfter > CHAR_BIT
    /\ \E k \in DOMAIN dec.rlog : \E j \in DOMAIN dec.rlog :
          /\ k < j
          /\ dec.rlog[k].csBefore > CHAR_BIT
          /\ dec.rlog[k].reset
          /\ dec.rlog[j].kind # "reset"
          /\ dec.rlog[j].csAfter > CHAR_BIT

(***************************************************************************)
(* C23.  Whenever lzw_decode_buf returns a non-negative value for a buffer *)
(* of size > 0, the value is size and every byte of the buffer has been    *)
(* taken into the bit accumulator; a call with size 0 returns 0 and        *)
(* changes nothing.                                                        *)
(***************************************************************************)
C23_DecodeCall ==
    LET size == fed' - fed
    IN  IF size = 0
        THEN dec' = [dec EXCEPT !.ret = 0]
        ELSE dec'.ret >= 0 =>
               /\ dec'.ret = size
               /\ dec'.lzwn = size
               /\ dec'.lzwm = size
               /\ dec'.inbuff = SubSeq(wire, fed + 1, fed')

C23_ReturnsSize == [][C23_DecodeCall]_vars

C23_Witness ==
    /\ pc = "done"
    /\ fed = Len(wire)
    /\ dec.ret > 1
    /\ dec.ret < Len(wire)
    /\ dec.lzwn = dec.ret
    /\ dec.bb.n > 0

(***************************************************************************)
(* C24.  Processing the first byte of a stream, the prefix still being     *)
(* NODE_NULL after lzw_enc_init, writes no bits: lzw_encode_buf of         *)
(* src/src/lzw-enc.c only makes that byte's single-byte code the prefix.   *)
(***************************************************************************)
C24_FirstByteSilent ==
    (pc = "enc" /\ enc.impl = "enc" /\ Len(inp) = 1)
        => /\ enc.wlog = <<>>
           /\ enc.xlog = <<>>
           /\ enc.bb.n = 0
           /\ enc.code = inp[1]

(***************************************************************************)
(* C25.  One step of lzw_encode_buf of src/src/lzw-enc.c with a valid      *)
(* prefix p and a byte c.  If p has no child for c: exactly one code is    *)
(* written, p; if the dictionary is not full, (p, c) becomes code          *)
(* max + 1 at the head of the child list of p; the prefix becomes c.  If p *)
(* has a child for c: nothing is written, max, the width and the           *)
(* dictionary are unchanged, and the prefix becomes that child.            *)
(***************************************************************************)
MissStep(c) ==
    LET p    == enc.code
        r    == enc_step_enc(enc, c)
        last == r.wlog[Len(r.wlog)]
    IN  /\ Len(r.wlog) = Len(enc.wlog) + 1
        /\ last.code = p
        /\ r.code = c
        /\ ~r.hung
        /\ enc.max < DICT_SIZE - 1 =>
              /\ r.max = enc.max + 1
              /\ r.resets = enc.resets
              /\ enc_node(r, r.max) =
                    [prev |-> p, first |-> NODE_NULL,
                     next |-> enc_node(enc, p).first, ch |-> c]
              /\ enc_node(r, p) = [enc_node(enc, p) EXCEPT !.first = r.max]
              /\ \A i \in 0 .. enc.max :
                    i # p => enc_node(r, i) = enc_node(enc, i)

HitStep(c, nc) ==
    /\ enc_node(enc, nc).prev = enc.code
    /\ enc_node(enc, nc).ch = c
    /\ enc_step_enc(enc, c) = [enc EXCEPT !.code = nc]

C25_EncoderStep ==
    (pc = "enc" /\ enc.impl = "enc" /\ ~enc.hung /\ enc.code <= enc.max)
        => \A c \in 0 .. (ALPHA - 1) :
             LET nc == lzw_enc_findstr(enc, enc.code, c)
             IN  IF nc = NODE_NULL THEN MissStep(c) ELSE HitStep(c, nc)

C25_Witness ==
    /\ pc = "enc"
    /\ enc.impl = "enc"
    /\ enc.code \in ALPHA .. enc.max
    /\ enc.max < DICT_SIZE - 1
    /\ enc_node(enc, enc.code).first # NODE_NULL
    /\ \E c \in 0 .. (ALPHA - 1) :
          lzw_enc_findstr(enc, enc.code, c) = NODE_NULL

(***************************************************************************)
(* C26.  K-w-K step: when lzw_decode_buf reads nc = max + 1 and a previous *)
(* code exists, it enters (previous code, first byte of the string of the  *)
(* previous code) as code nc, and writes exactly the string of the         *)
(* previous code followed by the first byte of that string.                *)
(***************************************************************************)
KwKStep ==
    LET nc  == dec.max + 1
        str == lzw_dec_getstr(dec, dec.code)
        r   == dec_unknown(dec_log(dec, dec, nc, dec.codesize, "kwk"),
                           dec, nc, Len(dec.rlog) + 1)[1]
        n   == Len(dec.stream)
    IN  /\ dec_node(r, nc) = [prev |-> dec.code, ch |-> str[1]]
        /\ Len(r.stream) >= n + Len(str) + 1
        /\ SubSeq(r.stream, n + 1, n + Len(str) + 1) = Append(str, str[1])

C26_KwKStep ==
    (/\ pc \in {"dec", "done"}
     /\ dec.ret >= 0
     /\ dec.code # NODE_NULL
     /\ dec.max + 1 < 2 ^ dec.codesize)
        => KwKStep

(***************************************************************************)
(* C27.  After a decoder reset the first code read after the reset is the  *)
(* new previous code: the first entry inserted after the reset, code 256,  *)
(* has prev equal to that code and not to a code read before the reset.    *)
(***************************************************************************)
C27_PrevAfterReset ==
    \A k \in DOMAIN dec.rlog :
        (/\ dec.rlog[k].kind = "reset"
         /\ k + 1 = Len(dec.rlog)
         /\ dec.rlog[k + 1].maxAfter = ALPHA
         /\ dec.ret >= 0)
            => /\ dec.rlog[k + 1].prevBefore = dec.rlog[k].code
               /\ dec_node(dec, ALPHA).prev = dec.rlog[k].code

(***************************************************************************)
(* C28.  The two widening rules are equivalent: for every input the        *)
(* encoder of src/src/lzw-enc.c (widen when max = 2^codesize, before the   *)
(* code is written) and the encoder of src/unnamed/part_002 (widen when    *)
(* max + 1 = 2^codesize, after the code is written and before the          *)
(* insertion) write every prefix code of the input with the same number of *)
(* bits, dictionary resets included.  The code that lzw-enc.c writes for   *)
(* the empty prefix NODE_NULL is not a prefix code of the input.           *)
(***************************************************************************)
encode_all(impl, input) ==
    lzw_encode_end(lzw_encode_buf(lzw_enc_init(ZeroEnc(impl)), input))

PrefixCodes(log) ==
    LET real == SelectSeq(log, LAMBDA e : e.code # NODE_NULL)
    IN  [k \in DOMAIN real |-> <<real[k].code, real[k].width>>]

C28_SameWidths ==
    (pc = "dec" /\ enc.impl = "enc" /\ inp # <<>>)
        => PrefixCodes(enc.wlog) = PrefixCodes(encode_all("root", inp).wlog)

C28_Witness ==
    /\ pc = "dec"
    /\ enc.impl = "enc"
    /\ \E k \in DOMAIN enc.wlog : \E j \in DOMAIN enc.wlog :
          /\ 1 < k
          /\ k < j
          /\ enc.wlog[k].width > CHAR_BIT
          /\ enc.wlog[k].reset
          /\ enc.wlog[j].width > CHAR_BIT
    /\ PrefixCodes(enc.wlog) = PrefixCodes(encode_all("root", inp).wlog)

(***************************************************************************)
(* C29.  Child uniqueness in the encoder of src/src/lzw-enc.c: for every   *)
(* code p <= max and every byte b at most one code i <= max has            *)
(* prev[i] = p and ch[i] = b, and lzw_enc_findstr(p, b) returns that code  *)
(* if it exists and NODE_NULL otherwise.                                   *)
(***************************************************************************)
Children(p, b) ==
    {i \in 0 .. enc.max :
        enc_node(enc, i).prev = p /\ enc_node(enc, i).ch = b}

C29_ChildUnique ==
    (enc.impl = "enc" /\ ~enc.hung) =>
        \A p \in 0 .. enc.max : \A b \in 0 .. (ALPHA - 1) :
            /\ Cardinality(Children(p, b)) <= 1
            /\ lzw_enc_findstr(enc, p, b) \in
                  IF Children(p, b) = {} THEN {NODE_NULL} ELSE Children(p, b)

C29_Witness ==
    /\ pc = "enc"
    /\ enc.impl = "enc"
    /\ enc.resets >= 2
    /\ \E p \in ALPHA .. enc.max : \E b \in 0 .. (ALPHA - 1) :
          Children(p, b) # {}
    /\ \E p \in 0 .. (ALPHA - 1) : \E b \in 0 .. (ALPHA - 1) :
          \E d \in 0 .. (ALPHA - 1) :
              b # d /\ Children(p, b) # {} /\ Children(p, d) # {}

(***************************************************************************)
(* C30.  After any number of resets every child list that starts at a code *)
(* <= max of the encoder of src/src/lzw-enc.c is finite and acyclic and    *)
(* holds only codes in 256 .. max whose prev is that parent; nodes left    *)
(* from before a reset are never reached, and lzw_enc_findstr terminates.  *)
(***************************************************************************)
RECURSIVE ChildList(_, _)
ChildList(nc, fuel) ==
    IF nc = NODE_NULL THEN <<>>
    ELSE IF fuel = 0 THEN <<HUNG>>
    ELSE <<nc>> \o ChildList(enc_node(enc, nc).next, fuel - 1)

ChildrenOf(p) == ChildList(enc_node(enc, p).first, DICT_SIZE + 1)

C30_ChildLists ==
    enc.impl = "enc" =>
        /\ ~enc.hung
        /\ \A p \in 0 .. enc.max :
              LET l == ChildrenOf(p)
              IN  \A k \in DOMAIN l :
                    /\ l[k] \in ALPHA .. enc.max
                    /\ enc_node(enc, l[k]).prev = p
                    /\ \A j \in DOMAIN l : j # k => l[j] # l[k]
                    /\ \A b \in 0 .. (ALPHA - 1) :
                          lzw_enc_findstr(enc, p, b) # HUNG

C30_Witness ==
    /\ pc = "enc"
    /\ enc.impl = "enc"
    /\ enc.resets >= 2
    /\ \E i \in DOMAIN enc.dict : i > enc.max /\ i < NODE_NULL
    /\ \E p \in 0 .. enc.max : Len(ChildrenOf(p)) >= 2

(***************************************************************************)
(* C31.  No truncation on emit: for every non-empty input, every code the  *)
(* encoder of src/unnamed/part_002 writes, in lzw_encode_buf and in        *)
(* lzw_encode_end, is at most max and is less than 2^codesize at the       *)
(* moment it is written, so the mask of lzw_enc_writebits drops no set     *)
(* bit.                                                                    *)
(***************************************************************************)
C31_NoTruncation ==
    (enc.impl = "root" /\ inp # <<>>) =>
        \A k \in DOMAIN enc.wlog :
            /\ enc.wlog[k].code <= enc.wlog[k].maxAt
            /\ enc.wlog[k].code < 2 ^ enc.wlog[k].width
            /\ enc.wlog[k].bits = enc.wlog[k].code

(* A finished stream of the part_002 encoder that filled the dictionary   *)
(* and wrote a code of the greatest width.                                 *)
C31_Witness ==
    /\ Finished("root")
    /\ inp # <<>>
    /\ enc.resets >= 1
    /\ \E k \in DOMAIN enc.wlog :
            /\ enc.wlog[k].width = cfg.mw
            /\ enc.wlog[k].code >= 2 ^ (cfg.mw - 1)

(***************************************************************************)
(* C32.  lzw_encode_end of src/unnamed/part_002 appends between 0 and 7    *)
(* zero pad bits: once it has returned, the number of bytes handed to      *)
(* lzw_writebuf is the sum of the widths of all codes written, divided by  *)
(* the byte size and rounded up.                                           *)
(***************************************************************************)
C32_PadBits ==
    (pc \in {"dec", "done"} /\ enc.impl = "root") =>
        Len(enc.stream) =
            (SumSeq(WidthsWritten) + (CHAR_BIT - 1)) \div CHAR_BIT

(***************************************************************************)
(* C33.  After lzw_encode_end of src/src/lzw-enc.c has returned the bit    *)
(* buffer is empty (bb.n = 0): every bit of every code written, the last   *)
(* one included, is in a byte that was handed to lzw_writebuf.             *)
(***************************************************************************)
C33_AccumulatorEmpty ==
    (pc \in {"dec", "done"} /\ enc.impl = "enc") =>
        /\ enc.bb.n = 0
        /\ Len(enc.stream) * CHAR_BIT >= SumSeq(WidthsWritten)

(***************************************************************************)
(* C34.  End of buffer in the main loop of lzw_decode_buf: when the bits   *)
(* in the bit buffer together with the bytes of the buffer given are fewer *)
(* than codesize, the call writes no output, leaves max, codesize, the     *)
(* previous code and the first-byte field c as they were, and keeps the    *)
(* bits in the bit buffer, so that the next call completes the same code:  *)
(* decoding the rest in a second call ends in the state that one call on   *)
(* both buffers together ends in.                                          *)
(***************************************************************************)
RECURSIVE BitsValue(_)
BitsValue(b) ==
    IF b = <<>> THEN 0
    ELSE (BitsValue(SubSeq(b, 1, Len(b) - 1)) * ALPHA) + b[Len(b)]

DecView(d) ==
    [stream |-> d.stream, max |-> d.max, codesize |-> d.codesize,
     code |-> d.code, c |-> d.c, bb |-> d.bb, rlog |-> d.rlog,
     resets |-> d.resets, err |-> d.ret < 0]

ShortBuffers ==
    {n \in 1 .. (Len(wire) - fed) :
        dec.bb.n + (CHAR_BIT * n) < dec.codesize}

C34_EndOfBuffer ==
    pc = "dec" =>
        \A n \in ShortBuffers :
            LET b  == SubSeq(wire, fed + 1, fed + n)
                d1 == lzw_decode_buf(dec, b)
            IN  /\ d1.ret = n
                /\ d1.stream = dec.stream
                /\ d1.rlog = dec.rlog
                /\ d1.max = dec.max
                /\ d1.codesize = dec.codesize
                /\ d1.code = dec.code
                /\ d1.c = dec.c
                /\ d1.bb.n = dec.bb.n + (CHAR_BIT * n)
                /\ d1.bb.buf = (dec.bb.buf * (ALPHA ^ n)) + BitsValue(b)
                /\ \A m \in 1 .. (Len(wire) - (fed + n)) :
                      LET b2 == SubSeq(wire, fed + n + 1, fed + n + m)
                      IN  DecView(lzw_decode_buf(d1, b2))
                            = DecView(lzw_decode_buf(dec, b \o b2))

(* The decoder has read codes, holds bits of an unfinished code left by a  *)
(* call that ended in the middle of it, and a further buffer too short to  *)
(* finish that code is at hand.                                            *)
C34_Witness ==
    /\ pc = "dec"
    /\ dec.rlog # <<>>
    /\ dec.ret >= 1
    /\ dec.bb.n >= 1
    /\ \E n \in ShortBuffers : fed + n < Len(wire)

(***************************************************************************)
(* C35.  Decoder chunking invariance: however the stream is split into     *)
(* consecutive non-empty buffers, the successive lzw_decode_buf calls      *)
(* write the same output bytes and end in the same max, codesize and       *)
(* previous code as one call on the bytes given so far, also when a buffer *)
(* ends exactly where lzw_dec_reset tries to read the first code after the *)
(* reset.                                                                  *)
(***************************************************************************)
ChunkView(d) ==
    [stream |-> d.stream, max |-> d.max, codesize |-> d.codesize,
     code |-> d.code, err |-> d.ret < 0]

C35_ChunkingInvariance ==
    fed > 0 =>
        ChunkView(dec) =
            ChunkView(lzw_decode_buf(lzw_dec_init(ZeroDec),
                                     SubSeq(wire, 1, fed)))

(***************************************************************************)
(* C36.  Memory safety of the dictionary: every index at which             *)
(* lzw_enc_init, lzw_enc_findstr, lzw_enc_addstr, lzw_dec_init,            *)
(* lzw_dec_addstr and lzw_dec_getstr read or write the dict array lies in  *)
(* 0 .. DICT_SIZE - 1.  The dictionary of the model holds a node at every  *)
(* index the code has written that is not laid over another field.         *)
(***************************************************************************)
C36_DictBounds ==
    /\ DOMAIN enc.dict \subseteq 0 .. (DICT_SIZE - 1)
    /\ DOMAIN dec.dict \subseteq 0 .. (DICT_SIZE - 1)

(***************************************************************************)
(* C37.  Re-initialisation is complete: lzw_enc_init of src/src/lzw-enc.c  *)
(* on a context already used for another stream leaves the bit buffer and  *)
(* the byte counter lzwn empty, and encoding any input from there writes   *)
(* exactly the bytes that encoding it on a fresh zero-filled context       *)
(* writes.                                                                 *)
(***************************************************************************)
C37_ReinitComplete ==
    enc.impl = "enc" =>
        /\ (pc = "enc" /\ inp = <<>>) => (enc.bb.n = 0 /\ enc.buff = <<>>)
        /\ pc = "dec" => enc.stream = encode_all("enc", inp).stream

(***************************************************************************)
(* C38.  Termination: from every reachable state of the decoder and for    *)
(* every buffer of arbitrary bytes lzw_decode_buf returns: every iteration *)
(* of its loop either takes at least one byte's worth of bits from those   *)
(* at hand (the bit buffer and the unread bytes of the buffer) or ends the *)
(* loop; an iteration writes one string of at most DICT_SIZE bytes (and,   *)
(* when it resets the dictionary, the first byte after the reset); and a   *)
(* call that has begun does return.                                        *)
(***************************************************************************)
BitsAtHand(d) == d.bb.n + (CHAR_BIT * (d.lzwm - d.lzwn))

IterConsumes ==
    (pc = "loop" /\ pc' = "loop") =>
        /\ BitsAtHand(dec') + CHAR_BIT <= BitsAtHand(dec)
        /\ BitsAtHand(dec') >= 0
        /\ Len(dec'.stream) - Len(dec.stream) <= DICT_SIZE + 1

C38_Terminates ==
    /\ [][IterConsumes]_vars
    /\ (pc = "loop") ~> (pc # "loop")

(* A call has returned after a string reconstruction that was stopped at   *)
(* DICT_SIZE bytes, in a stream that made the decoder reset.               *)
C38_Witness ==
    /\ pc \in {"dec", "done"}
    /\ fed > 0
    /\ dec.resets >= 1
    /\ \E k \in DOMAIN dec.rlog :
            dec.rlog[k].outAfter - dec.rlog[k].outBefore >= DICT_SIZE

(***************************************************************************)
(* C39.  String length bound: every string the decoder reconstructs for a  *)
(* code of a well-formed stream (one an encoder wrote) is non-empty and    *)
(* has at most DICT_SIZE minus the number of single-byte codes bytes.      *)
(* StrLen(k) is the length of the string written for the k-th code read:   *)
(* the output of its iteration without the byte lzw_dec_reset writes.      *)
(***************************************************************************)
StrLen(k) ==
    (IF k < Len(dec.rlog) /\ dec.rlog[k + 1].kind = "reset"
     THEN dec.rlog[k + 1].outBefore ELSE dec.rlog[k].outAfter)
        - dec.rlog[k].outBefore

C39_StringBound ==
    \A k \in DOMAIN dec.rlog :
        (pc # "loop" /\ dec.rlog[k].kind # "wrong") =>
            (StrLen(k) >= 1 /\ StrLen(k) <= DICT_SIZE - ALPHA)

====
